---- MODULE Spec2Model ----
(***************************************************************************)
(* The Tongyi chat provider of blades (contrib/tongyi/chat.go): request    *)
(* translation, tool dispatch, response assembly, the recursive            *)
(* non-streaming controller (Generate / New) and the streaming pipeline    *)
(* (NewStream / NewStreaming) with its producer goroutines and pipes.      *)
(***************************************************************************)
EXTENDS Integers, Sequences, FiniteSets, TLC

VARIABLES
    provider,  \* the provider: the arguments NewChatProvider was given and its client
    mode,      \* which entry point the caller used: "idle", "generate", "stream",
               \* or a function applied directly: "toolCall", "translate",
               \* "roundtrip", "assemble"
    req,       \* the caller's *blades.ModelRequest
    opt,       \* the caller's options: the MaxIterations passed, or NoOption
    result,    \* what the entry point returned to the caller
    g,         \* the activation of ChatProvider.New that is running (Generate)
    frames,    \* the stack of NewStreaming producer goroutines (NewStream)
    consumer,  \* the caller draining the outermost pipe
    sent,      \* wire client log: the message list of every request submitted
    delivered, \* wire client log: every chunk delivered, with the stream it came on
    received,  \* wire client log: every completion returned (with the call's error)
               \* or accumulated from a stream
    invoked,   \* tool handler log: every handler invocation, in order
    tc         \* the last direct application of toolCall: its inputs and outputs

vars ==
    <<provider, mode, req, opt, result, g, frames, consumer, sent, delivered, received, invoked, tc>>

----------------------------------------------------------------------------
\* Bounds of the model.

\* largest MaxIterations option the caller passes explicitly
MaxIter == 2
\* chunks the wire client delivers over one streaming call chain
MaxChunks == 3
\* parts of a message given to the translation
MaxParts == 2
\* messages of a request given to the translation
MaxMsgs == 3
\* tool calls of a choice given to the assembly
MaxCalls == 2
\* capacity of a pipe's hand-off queue
PipeCap == 1

----------------------------------------------------------------------------
\* Errors (chat.go:18-29) and the errors of collaborators.

NoErr == "nil"
ErrEmptyResponse == "empty completion response"
ErrToolNotFound == "tool not found"
ErrTooManyIterations == "too many iterations requested"
ErrInvalidAPIKey == "invalid or missing API key"
ErrInvalidModel == "invalid model name"
ErrEmptyMessages == "at least one message is required"
ErrTransport == "transport error"
ErrBase64 == "illegal base64 data"
ErrHandler == "handler failed"
ErrSchema == "json: unsupported value"
ErrUnauthorized == "401 Unauthorized"
ErrCanceled == "context canceled"

\* Model names (chat.go:32-45).
QwenTurbo == "qwen-turbo"
QwenPlus == "qwen-plus"
QwenMax == "qwen-max"
QwenLong == "qwen-long"
QwenVL == "qwen-vl-plus"
QwenAudio == "qwen-audio-turbo"

\* blades roles and statuses
RoleUser == "user"
RoleAssistant == "assistant"
RoleSystem == "system"
RoleTool == "tool"
StatusCompleted == "completed"
StatusIncomplete == "incomplete"

\* least length of an API key that isValidAPIKey accepts
MinAPIKeyLen == 20
\* default of ModelOptions.MaxIterations in Generate and NewStream
DefaultMaxIterations == 3
NoOption == [given |-> FALSE, maxIterations |-> 0]
WithMaxIterations(n) == [given |-> TRUE, maxIterations |-> n]

----------------------------------------------------------------------------
\* Go strings that the program concatenates or compares as text are sequences
\* of tokens: Str("a") is the string "a", EmptyStr the empty string, \o the +.
Str(x) == <<x>>
EmptyStr == <<>>

\* Values of the neutral message model.

\* a blades.MimeType: the string, with what its Type() and Format() return
NoMime == [type |-> "", format |-> EmptyStr, str |-> EmptyStr]
MimePNG == [type |-> "image", format |-> Str("png"), str |-> Str("image/png")]
MimeWAV == [type |-> "audio", format |-> Str("wav"), str |-> Str("audio/wav")]
MimePDF == [type |-> "application", format |-> Str("pdf"), str |-> Str("application/pdf")]

TextPart(t) ==
    [kind |-> "text", text |-> t, name |-> EmptyStr, uri |-> EmptyStr, bytes |-> <<>>,
     mime |-> NoMime]
FilePart(n, u, m) ==
    [kind |-> "file", text |-> EmptyStr, name |-> n, uri |-> u, bytes |-> <<>>, mime |-> m]
DataPart(n, b, m) ==
    [kind |-> "data", text |-> EmptyStr, name |-> n, uri |-> EmptyStr, bytes |-> b, mime |-> m]

\* base64.StdEncoding on the byte strings the model uses
BytesHi == <<104, 105>>
BytesPNG == <<137, 80, 78, 71>>

Base64Encode(b) ==
    CASE b = <<>> -> EmptyStr
      [] b = BytesHi -> Str("aGk=")
      [] b = BytesPNG -> Str("iVBORw==")

Base64Decode(s) ==
    CASE s = EmptyStr -> [bytes |-> <<>>, err |-> NoErr]
      [] s = Str("aGk=") -> [bytes |-> BytesHi, err |-> NoErr]
      [] s = Str("iVBORw==") -> [bytes |-> BytesPNG, err |-> NoErr]
      [] OTHER -> [bytes |-> <<>>, err |-> ErrBase64]

----------------------------------------------------------------------------
\* NewChatProvider (chat.go:55-80). An API key is the sequence of its
\* characters; apiKey is the variadic argument list; env is the process
\* environment. The client holds the key passed with option.WithAPIKey, the
\* empty string when none was passed.

isValidAPIKey(key) == Len(key) > 0 /\ Len(key) >= MinAPIKeyLen

Client(key) == [baseURL |-> "https://dashscope.aliyuncs.com/compatible-mode/v1", apiKey |-> key]

NewChatProvider(apiKey, env) ==
    IF Len(apiKey) > 0 /\ apiKey[1] # EmptyStr
    THEN IF ~isValidAPIKey(apiKey[1])
         THEN [given |-> apiKey, client |-> Client(EmptyStr)]
         ELSE [given |-> apiKey, client |-> Client(apiKey[1])]
    ELSE LET envKey == IF env.DASHSCOPE_API_KEY # EmptyStr
                       THEN env.DASHSCOPE_API_KEY
                       ELSE env.OPENAI_API_KEY
         IN [given |-> apiKey, client |-> Client(envKey)]

----------------------------------------------------------------------------
\* isValidModel (chat.go:88-98)

\* a table that lost one of the names
isValidModelWithoutAudio(model) ==
    model \in {QwenTurbo, QwenPlus, QwenMax, QwenLong, QwenVL}

isValidModel(model) ==
    model \in {QwenTurbo, QwenPlus, QwenMax, QwenLong, QwenVL, QwenAudio}

\* toTools (chat.go:151-180): one declaration per tool; a schema that does not
\* survive the JSON round trip fails the whole translation.
RECURSIVE toToolsFrom(_, _, _)
toToolsFrom(tools, i, acc) ==
    IF i > Len(tools) THEN [tools |-> acc, err |-> NoErr]
    ELSE IF tools[i].schema = "bad" THEN [tools |-> <<>>, err |-> ErrSchema]
    ELSE toToolsFrom(tools, i + 1,
            Append(acc, [name |-> tools[i].name,
                         description |-> tools[i].description,
                         parameters |-> tools[i].schema]))

toTools(tools) ==
    IF Len(tools) = 0 THEN [tools |-> <<>>, err |-> NoErr]
    ELSE toToolsFrom(tools, 1, <<>>)

\* toTextParts (chat.go:183-192)
RECURSIVE toTextPartsFrom(_, _)
toTextPartsFrom(parts, i) ==
    IF i > Len(parts) THEN <<>>
    ELSE (IF parts[i].kind = "text"
          THEN <<[type |-> "text", text |-> parts[i].text]>>
          ELSE <<>>) \o toTextPartsFrom(parts, i + 1)

\* a conversion that lists the text parts last to first
RECURSIVE toTextPartsBack(_, _)
toTextPartsBack(parts, i) ==
    IF i < 1 THEN <<>>
    ELSE (IF parts[i].kind = "text"
          THEN <<[type |-> "text", text |-> parts[i].text]>>
          ELSE <<>>) \o toTextPartsBack(parts, i - 1)

toTextPartsReversed(message) == toTextPartsBack(message.parts, Len(message.parts))

toTextParts(message) == toTextPartsFrom(message.parts, 1)

\* toContentParts (chat.go:195-240)
toContentPart(v) ==
    CASE v.kind = "text" -> <<[type |-> "text", text |-> v.text]>>
      [] v.kind = "file" ->
            (CASE v.mime.type = "image" -> <<[type |-> "image_url", url |-> v.uri]>>
               [] v.mime.type = "audio" ->
                    <<[type |-> "input_audio", data |-> v.uri, format |-> v.mime.format]>>
               [] OTHER -> <<>>)
      [] v.kind = "data" ->
            (CASE v.mime.type = "image" ->
                    <<[type |-> "image_url",
                       url |-> Str("data:") \o v.mime.str \o Str(";base64,")
                               \o Base64Encode(v.bytes)]>>
               [] v.mime.type = "audio" ->
                    <<[type |-> "input_audio",
                       data |-> Str("data:;base64,") \o Base64Encode(v.bytes),
                       format |-> v.mime.format]>>
               [] OTHER ->
                    <<[type |-> "file", fileData |-> Base64Encode(v.bytes),
                       filename |-> v.name]>>)
      [] OTHER -> <<>>

RECURSIVE toContentPartsFrom(_, _)
toContentPartsFrom(parts, i) ==
    IF i > Len(parts) THEN <<>>
    ELSE toContentPart(parts[i]) \o toContentPartsFrom(parts, i + 1)

\* a conversion that lists the content parts last to first
RECURSIVE toContentPartsBack(_, _)
toContentPartsBack(parts, i) ==
    IF i < 1 THEN <<>>
    ELSE toContentPart(parts[i]) \o toContentPartsBack(parts, i - 1)

toContentPartsReversed(message) == toContentPartsBack(message.parts, Len(message.parts))

toContentParts(message) == toContentPartsFrom(message.parts, 1)

\* Wire messages: openai.UserMessage, AssistantMessage, SystemMessage,
\* ChatCompletionMessage.ToParam and ToolMessage.
WireMsg(role, text, parts, calls, id) ==
    [role |-> role, text |-> text, parts |-> parts, toolCalls |-> calls, toolCallID |-> id]

\* a role switch that carries the last text part of an assistant message
RECURSIVE toWireMessagesLastText(_, _)
toWireMessagesLastText(messages, i) ==
    IF i > Len(messages) THEN <<>>
    ELSE LET msg == messages[i]
             textParts == toTextParts(msg)
             out == CASE msg.role = RoleUser ->
                            <<WireMsg(RoleUser, EmptyStr, toContentParts(msg), <<>>, EmptyStr)>>
                      [] msg.role = RoleAssistant ->
                            IF Len(textParts) > 0
                            THEN <<WireMsg(RoleAssistant, textParts[Len(textParts)].text,
                                           <<>>, <<>>, EmptyStr)>>
                            ELSE <<>>
                      [] msg.role = RoleSystem ->
                            <<WireMsg(RoleSystem, EmptyStr, textParts, <<>>, EmptyStr)>>
                      [] OTHER -> <<>>
         IN out \o toWireMessagesLastText(messages, i + 1)

\* the per-message role switch of toChatCompletionParams (chat.go:133-147)
RECURSIVE toWireMessages(_, _)
toWireMessages(messages, i) ==
    IF i > Len(messages) THEN <<>>
    ELSE LET msg == messages[i]
             textParts == toTextParts(msg)
             out == CASE msg.role = RoleUser ->
                            <<WireMsg(RoleUser, EmptyStr, toContentParts(msg), <<>>, EmptyStr)>>
                      [] msg.role = RoleAssistant ->
                            IF Len(textParts) > 0
                            THEN <<WireMsg(RoleAssistant, textParts[1].text, <<>>, <<>>, EmptyStr)>>
                            ELSE <<>>
                      [] msg.role = RoleSystem ->
                            <<WireMsg(RoleSystem, EmptyStr, textParts, <<>>, EmptyStr)>>
                      [] OTHER -> <<>>
         IN out \o toWireMessages(messages, i + 1)

NoParams == [model |-> "", tools |-> <<>>, messages |-> <<>>]

\* a translation that forgets the check of the message list
toChatCompletionParamsUnchecked(r) ==
    IF ~isValidModel(r.model) THEN [params |-> NoParams, err |-> ErrInvalidModel]
    ELSE LET t == toTools(r.tools) IN
         IF t.err # NoErr THEN [params |-> NoParams, err |-> t.err]
         ELSE [params |-> [model |-> r.model, tools |-> t.tools,
                           messages |-> toWireMessages(r.messages, 1)],
               err |-> NoErr]

\* toChatCompletionParams (chat.go:101-149)
toChatCompletionParams(r) ==
    IF ~isValidModel(r.model) THEN [params |-> NoParams, err |-> ErrInvalidModel]
    ELSE IF Len(r.messages) = 0 THEN [params |-> NoParams, err |-> ErrEmptyMessages]
    ELSE LET t == toTools(r.tools) IN
         IF t.err # NoErr THEN [params |-> NoParams, err |-> t.err]
         ELSE [params |-> [model |-> r.model, tools |-> t.tools,
                           messages |-> toWireMessages(r.messages, 1)],
               err |-> NoErr]

----------------------------------------------------------------------------
\* Tool handlers supplied by the caller (blades.Tool.Handle): what each
\* returns for an argument string.
Handle(tool, arguments) ==
    CASE tool.handler = "weather" -> [result |-> Str("Beijing: Sunny, 25C"), err |-> NoErr]
      [] tool.handler = "echo" -> [result |-> arguments, err |-> NoErr]
      [] tool.handler = "fail" -> [result |-> Str("partial"), err |-> ErrHandler]

\* toolCall (chat.go:243-250): the first tool of that name handles the call.
\* invs lists the handler invocations made: <<index of the tool, arguments>>.
RECURSIVE toolCallFrom(_, _, _, _)
toolCallFrom(tools, name, arguments, i) ==
    IF i > Len(tools)
    THEN [result |-> EmptyStr, err |-> ErrToolNotFound, invs |-> <<>>]
    ELSE IF tools[i].name = name
    THEN LET h == Handle(tools[i], arguments)
         IN [result |-> h.result, err |-> h.err,
             invs |-> <<[tool |-> i, name |-> name, arguments |-> arguments]>>]
    ELSE toolCallFrom(tools, name, arguments, i + 1)

\* a dispatch that returns the empty string whenever the handler fails
toolCallDropsResult(tools, name, arguments) ==
    LET r == toolCallFrom(tools, name, arguments, 1)
    IN IF r.err # NoErr THEN [r EXCEPT !.result = EmptyStr] ELSE r

toolCall(tools, name, arguments) == toolCallFrom(tools, name, arguments, 1)

----------------------------------------------------------------------------
\* choiceToResponse (chat.go:253-298)

NilResponse == [nil |-> TRUE, messages |-> <<>>]
Response(msgs) == [nil |-> FALSE, messages |-> msgs]

NewMessage(status) ==
    [role |-> RoleAssistant, status |-> status, parts |-> <<>>,
     metadata |-> {}, toolCalls |-> <<>>]

\* a loop that skips a call that failed and goes on with the next one
RECURSIVE toolCallsLoopIgnoresFailure(_, _, _, _)
toolCallsLoopIgnoresFailure(tools, calls, k, st) ==
    IF k > Len(calls) THEN st
    ELSE LET call == calls[k]
             r == toolCall(tools, call.name, call.arguments)
         IN IF r.err # NoErr
            THEN toolCallsLoopIgnoresFailure(tools, calls, k + 1,
                    [st EXCEPT !.invs = @ \o r.invs])
            ELSE toolCallsLoopIgnoresFailure(tools, calls, k + 1,
                    [msg |-> [st.msg EXCEPT
                                !.role = RoleTool,
                                !.toolCalls = Append(@,
                                    [id |-> call.id, name |-> call.name,
                                     arguments |-> call.arguments, result |-> r.result])],
                     messages |-> Append(st.messages,
                                    WireMsg(RoleTool, r.result, <<>>, <<>>, call.id)),
                     invs |-> st.invs \o r.invs,
                     err |-> NoErr])

\* the loop over choice.Message.ToolCalls (chat.go:281-294);
\* st = [msg, messages, invs, err]
RECURSIVE toolCallsLoop(_, _, _, _)
toolCallsLoop(tools, calls, k, st) ==
    IF k > Len(calls) THEN st
    ELSE LET call == calls[k]
             r == toolCall(tools, call.name, call.arguments)
         IN IF r.err # NoErr
            THEN [st EXCEPT !.err = r.err, !.invs = @ \o r.invs]
            ELSE toolCallsLoop(tools, calls, k + 1,
                    [msg |-> [st.msg EXCEPT
                                !.role = RoleTool,
                                !.toolCalls = Append(@,
                                    [id |-> call.id, name |-> call.name,
                                     arguments |-> call.arguments, result |-> r.result])],
                     messages |-> Append(st.messages,
                                    WireMsg(RoleTool, r.result, <<>>, <<>>, call.id)),
                     invs |-> st.invs \o r.invs,
                     err |-> NoErr])

\* an assembly of a choice that leaves the announcement out
choiceStepNoAnnouncement(tools, choice, st) ==
    LET msg0 == NewMessage(StatusCompleted)
        msg1 == IF choice.content # EmptyStr
                THEN [msg0 EXCEPT !.parts = Append(@, TextPart(choice.content))]
                ELSE msg0
        dec == Base64Decode(choice.audio)
    IN IF choice.audio # EmptyStr /\ dec.err # NoErr
       THEN [st EXCEPT !.err = dec.err]
       ELSE
       LET msg2 == IF choice.audio # EmptyStr
                   THEN [msg1 EXCEPT !.parts = Append(@, DataPart(EmptyStr, dec.bytes, NoMime))]
                   ELSE msg1
           t == toolCallsLoop(tools, choice.toolCalls, 1,
                    [msg |-> msg2, messages |-> st.messages, invs |-> st.invs,
                     err |-> NoErr])
       IN IF t.err # NoErr
          THEN [out |-> st.out, messages |-> t.messages, invs |-> t.invs, err |-> t.err]
          ELSE [out |-> Append(st.out, t.msg), messages |-> t.messages,
                invs |-> t.invs, err |-> NoErr]

\* one choice (chat.go:256-295); st = [out, messages, invs, err]
choiceStep(tools, choice, st) ==
    LET msg0 == NewMessage(StatusCompleted)
        msg1 == IF choice.content # EmptyStr
                THEN [msg0 EXCEPT !.parts = Append(@, TextPart(choice.content))]
                ELSE msg0
        dec == Base64Decode(choice.audio)
    IN IF choice.audio # EmptyStr /\ dec.err # NoErr
       THEN [st EXCEPT !.err = dec.err]
       ELSE
       LET msg2 == IF choice.audio # EmptyStr
                   THEN [msg1 EXCEPT !.parts = Append(@, DataPart(EmptyStr, dec.bytes, NoMime))]
                   ELSE msg1
           msg3 == IF choice.refusal # EmptyStr
                   THEN [msg2 EXCEPT !.metadata = @ \cup {<<"refusal", choice.refusal>>}]
                   ELSE msg2
           msg4 == IF choice.finish # EmptyStr
                   THEN [msg3 EXCEPT !.metadata = @ \cup {<<"finish_reason", choice.finish>>}]
                   ELSE msg3
           announced == IF Len(choice.toolCalls) > 0
                        THEN Append(st.messages,
                                WireMsg(RoleAssistant, choice.content, <<>>,
                                        choice.toolCalls, EmptyStr))
                        ELSE st.messages
           t == toolCallsLoop(tools, choice.toolCalls, 1,
                    [msg |-> msg4, messages |-> announced, invs |-> st.invs, err |-> NoErr])
       IN IF t.err # NoErr
          THEN [out |-> st.out, messages |-> t.messages, invs |-> t.invs, err |-> t.err]
          ELSE [out |-> Append(st.out, t.msg), messages |-> t.messages,
                invs |-> t.invs, err |-> NoErr]

RECURSIVE choicesLoop(_, _, _, _)
choicesLoop(tools, choices, i, st) ==
    IF i > Len(choices) \/ st.err # NoErr THEN st
    ELSE choicesLoop(tools, choices, i + 1, choiceStep(tools, choices[i], st))

\* an assembly that runs every handler a second time
choiceToResponseInvokesTwice(messages, tools, choices) ==
    LET st == choicesLoop(tools, choices, 1,
                [out |-> <<>>, messages |-> messages, invs |-> <<>>, err |-> NoErr])
    IN [res |-> IF st.err # NoErr THEN NilResponse ELSE Response(st.out),
        err |-> st.err, messages |-> st.messages, invs |-> st.invs \o st.invs]

\* an assembly that starts the running list afresh
choiceToResponseRestarts(messages, tools, choices) ==
    LET st == choicesLoop(tools, choices, 1,
                [out |-> <<>>, messages |-> <<>>, invs |-> <<>>, err |-> NoErr])
    IN [res |-> IF st.err # NoErr THEN NilResponse ELSE Response(st.out),
        err |-> st.err, messages |-> st.messages, invs |-> st.invs]

\* res and err are what it returns; messages is params.Messages as it leaves
\* it; invs are the handler invocations it made.
choiceToResponse(messages, tools, choices) ==
    LET st == choicesLoop(tools, choices, 1,
                [out |-> <<>>, messages |-> messages, invs |-> <<>>, err |-> NoErr])
    IN [res |-> IF st.err # NoErr THEN NilResponse ELSE Response(st.out),
        err |-> st.err, messages |-> st.messages, invs |-> st.invs]

\* the scan of New and NewStreaming over the response's messages
\* (chat.go:359-369, 414-434): the first index from i of a tool-role message
\* that has tool calls, 0 when there is none.
\* a scan that forgets to look at the role
nextToolMessageAnyRole(msgs, i) == IF i > Len(msgs) THEN 0 ELSE i

\* a scan that stops at the first message
nextToolMessageFirstOnly(msgs, i) ==
    IF i <= Len(msgs) /\ msgs[i].role = RoleTool /\ Len(msgs[i].toolCalls) # 0 THEN i ELSE 0

RECURSIVE nextToolMessage(_, _)
nextToolMessage(msgs, i) ==
    IF i > Len(msgs) THEN 0
    ELSE IF msgs[i].role = RoleTool /\ Len(msgs[i].toolCalls) # 0 THEN i
    ELSE nextToolMessage(msgs, i + 1)

----------------------------------------------------------------------------
\* chunkChoiceToResponse (chat.go:301-329): no handler runs on a chunk.

RECURSIVE chunkToolCalls(_, _)
chunkToolCalls(deltas, k) ==
    IF k > Len(deltas) THEN <<>>
    ELSE <<[id |-> deltas[k].id, name |-> deltas[k].name,
            arguments |-> deltas[k].arguments, result |-> EmptyStr]>>
         \o chunkToolCalls(deltas, k + 1)

\* a chunk conversion that marks its messages completed
chunkMessageCompleted(choice) ==
    LET msg0 == NewMessage(StatusCompleted)
        msg1 == IF choice.content # EmptyStr
                THEN [msg0 EXCEPT !.parts = Append(@, TextPart(choice.content))]
                ELSE msg0
    IN IF Len(choice.toolCalls) > 0
       THEN [msg1 EXCEPT !.role = RoleTool,
                         !.toolCalls = chunkToolCalls(choice.toolCalls, 1)]
       ELSE msg1

chunkMessage(choice) ==
    LET msg0 == NewMessage(StatusIncomplete)
        msg1 == IF choice.content # EmptyStr
                THEN [msg0 EXCEPT !.parts = Append(@, TextPart(choice.content))]
                ELSE msg0
        msg2 == IF choice.refusal # EmptyStr
                THEN [msg1 EXCEPT !.metadata = @ \cup {<<"refusal", choice.refusal>>}]
                ELSE msg1
        msg3 == IF choice.finish # EmptyStr
                THEN [msg2 EXCEPT !.metadata = @ \cup {<<"finish_reason", choice.finish>>}]
                ELSE msg2
    IN IF Len(choice.toolCalls) > 0
       THEN [msg3 EXCEPT !.role = RoleTool,
                         !.toolCalls = chunkToolCalls(choice.toolCalls, 1)]
       ELSE msg3

RECURSIVE chunkMessages(_, _)
chunkMessages(choices, i) ==
    IF i > Len(choices) THEN <<>>
    ELSE <<chunkMessage(choices[i])>> \o chunkMessages(choices, i + 1)

chunkChoiceToResponse(choices) ==
    [res |-> Response(chunkMessages(choices, 1)), err |-> NoErr]

\* openai.ChatCompletionAccumulator.AddChunk as NewStreaming uses it
\* (chat.go:399-402): choices and tool calls are placed by their index, text
\* fields are concatenated.
EmptyChoice ==
    [content |-> EmptyStr, audio |-> EmptyStr, refusal |-> EmptyStr,
     finish |-> EmptyStr, toolCalls |-> <<>>]
EmptyCall == [id |-> EmptyStr, name |-> EmptyStr, arguments |-> EmptyStr]

RECURSIVE expandToFit(_, _, _)
expandToFit(s, n, zero) ==
    IF Len(s) >= n THEN s ELSE expandToFit(Append(s, zero), n, zero)

RECURSIVE addToolDeltas(_, _, _)
addToolDeltas(calls, deltas, j) ==
    IF j > Len(deltas) THEN calls
    ELSE LET d == deltas[j]
             cs == expandToFit(calls, d.index + 1, EmptyCall)
             c == cs[d.index + 1]
         IN addToolDeltas(
                [cs EXCEPT ![d.index + 1] =
                    [id |-> IF d.id # EmptyStr THEN d.id ELSE c.id,
                     name |-> c.name \o d.name,
                     arguments |-> c.arguments \o d.arguments]],
                deltas, j + 1)

RECURSIVE addChunkFrom(_, _, _)
addChunkFrom(choices, chunk, i) ==
    IF i > Len(chunk) THEN choices
    ELSE LET d == chunk[i]
             cs == expandToFit(choices, d.index + 1, EmptyChoice)
             c == cs[d.index + 1]
         IN addChunkFrom(
                [cs EXCEPT ![d.index + 1] =
                    [content |-> c.content \o d.content,
                     audio |-> c.audio,
                     refusal |-> c.refusal \o d.refusal,
                     finish |-> d.finish,
                     toolCalls |-> addToolDeltas(c.toolCalls, d.toolCalls, 1)]],
                chunk, i + 1)

AddChunk(acc, chunk) == addChunkFrom(acc, chunk, 1)

----------------------------------------------------------------------------
\* blades.StreamPipe: a bounded hand-off queue from one producer goroutine to
\* one reader. hist is everything sent, rd how much of it the reader took;
\* the goroutine's return closes the pipe and leaves its error as the
\* terminal error.
NewStreamPipe == [hist |-> <<>>, rd |-> 0, closed |-> FALSE, err |-> NoErr]
PipeHasRoom(p) == Len(p.hist) - p.rd < PipeCap
PipeSend(p, item) == [p EXCEPT !.hist = Append(@, item)]
PipeHasNext(p) == p.rd < Len(p.hist)
PipeAtEnd(p) == p.rd = Len(p.hist) /\ p.closed
PipeNext(p) == [p EXCEPT !.rd = @ + 1]
PipeCurrent(p) == [res |-> p.hist[p.rd], err |-> NoErr]
PipeFinish(p, err) == [p EXCEPT !.closed = TRUE, !.err = err]

----------------------------------------------------------------------------
\* Inputs: what callers pass and what the wire client answers.

\* API keys: the empty one, the "invalid" of the tests, one character short of
\* the least length, and one of the least length
KeyOfLen(n) == [i \in 1 .. n |-> "k"]
ApiKeyArgs ==
    {<<>>, <<EmptyStr>>, <<KeyOfLen(7)>>, <<KeyOfLen(MinAPIKeyLen - 1)>>,
     <<KeyOfLen(MinAPIKeyLen)>>}
\* the process environment: credential fallback is left to the deployment,
\* here one that sets neither variable
Environments == {[DASHSCOPE_API_KEY |-> EmptyStr, OPENAI_API_KEY |-> EmptyStr]}

ModelNames ==
    {QwenTurbo, QwenPlus, QwenMax, QwenLong, QwenVL, QwenAudio, "", "invalid-model"}

Msg(role, parts) == [role |-> role, parts |-> parts]
UserHello == Msg(RoleUser, <<TextPart(Str("Hello"))>>)
MsgsHello == <<UserHello>>
MsgsSystem == <<Msg(RoleSystem, <<TextPart(Str("You are helpful."))>>), UserHello>>
MsgsMixed ==
    <<UserHello,
      Msg(RoleAssistant, <<FilePart(Str("a.png"), Str("file://a.png"), MimePNG)>>),
      Msg(RoleUser, <<DataPart(Str("p.png"), BytesPNG, MimePNG)>>)>>
MessageLists == {<<>>, MsgsHello, MsgsSystem, MsgsMixed}

Tool(name, schema, handler) ==
    [name |-> Str(name), description |-> EmptyStr, schema |-> schema, handler |-> handler]
ToolsNone == <<>>
ToolsBoth == <<Tool("get_weather", "ok", "weather"), Tool("echo", "nil", "echo")>>
ToolsFailing == <<Tool("get_weather", "ok", "weather"), Tool("echo", "nil", "fail")>>
ToolsDuplicate == <<Tool("get_weather", "ok", "weather"), Tool("get_weather", "nil", "echo")>>
ToolsBadSchema == <<Tool("get_weather", "bad", "weather")>>
ToolLists == {ToolsNone, ToolsBoth, ToolsFailing, ToolsDuplicate, ToolsBadSchema}

Request(m, ms, ts) == [model |-> m, messages |-> ms, tools |-> ts]
Requests ==
    {Request(m, MsgsHello, ToolsNone) : m \in ModelNames}
    \cup {Request(QwenTurbo, ms, ToolsNone) : ms \in MessageLists}
    \cup {Request(QwenTurbo, MsgsHello, ts) : ts \in ToolLists}
    \cup {Request("invalid-model", <<>>, ToolsNone), Request(QwenPlus, <<>>, ToolsBadSchema)}

\* the requests given to NewStream
StreamRequests ==
    {Request(QwenTurbo, MsgsHello, ts) : ts \in ToolLists \ {ToolsDuplicate}}
    \cup {Request(QwenTurbo, <<>>, ToolsNone), Request(QwenPlus, <<>>, ToolsBadSchema),
          Request("invalid-model", MsgsHello, ToolsNone),
          Request(QwenTurbo, MsgsMixed, ToolsNone)}

\* the requests given to the translation directly: one message of any role
\* with any parts, and lists of messages of mixed roles
PartMenu ==
    {TextPart(Str("Hello")), TextPart(EmptyStr),
     FilePart(Str("a.png"), Str("file://a.png"), MimePNG),
     FilePart(Str("a.wav"), Str("file://a.wav"), MimeWAV),
     FilePart(Str("a.pdf"), Str("file://a.pdf"), MimePDF),
     DataPart(Str("p.png"), BytesPNG, MimePNG),
     DataPart(Str("h.wav"), BytesHi, MimeWAV),
     DataPart(Str("h.pdf"), BytesHi, MimePDF)}
SeqsUpTo(S, n) == UNION {[1 .. k -> S] : k \in 0 .. n}
PartLists == SeqsUpTo(PartMenu, MaxParts)
MsgMenu ==
    {UserHello,
     Msg(RoleUser, <<FilePart(Str("a.pdf"), Str("file://a.pdf"), MimePDF),
                     TextPart(Str("Hello"))>>),
     Msg(RoleSystem, <<TextPart(Str("You are helpful.")),
                       FilePart(Str("a.png"), Str("file://a.png"), MimePNG),
                       TextPart(Str("Be brief."))>>),
     Msg(RoleAssistant, <<DataPart(Str("p.png"), BytesPNG, MimePNG),
                          TextPart(Str("Hi")), TextPart(Str("there"))>>),
     Msg(RoleAssistant, <<FilePart(Str("a.png"), Str("file://a.png"), MimePNG)>>),
     Msg(RoleTool, <<TextPart(Str("Beijing: Sunny, 25C"))>>)}
TranslateRequests ==
    {Request(QwenTurbo, <<Msg(r, ps)>>, ToolsNone) :
        r \in {RoleUser, RoleAssistant, RoleSystem, RoleTool}, ps \in PartLists}
    \cup {Request(QwenPlus, ms, ToolsBoth) : ms \in SeqsUpTo(MsgMenu, MaxMsgs)}

\* no option, or an explicit MaxIterations other than the default, which
\* behaves as no option does
Options ==
    {NoOption}
    \cup {WithMaxIterations(n) : n \in (-1 .. MaxIter) \ {DefaultMaxIterations}}

\* options that are never applied
applyOptionsIgnored(o) == DefaultMaxIterations

\* the options after the caller's ModelOption functions ran (chat.go:333-336)
applyOptions(o) == IF o.given THEN o.maxIterations ELSE DefaultMaxIterations

\* a guard that is off by one
budgetExhaustedOffByOne(maxIter) == maxIter < 0

\* a guard that never rejects
budgetExhaustedNever(maxIter) == FALSE

\* the entry guard of New and NewStreaming (chat.go:348, 393)
budgetExhausted(maxIter) == maxIter < 1

Call(id, name, arguments) ==
    [id |-> Str(id), name |-> Str(name), arguments |-> Str(arguments)]
Choice(content, audio, finish, calls) ==
    [content |-> content, audio |-> audio, refusal |-> EmptyStr, finish |-> finish,
     toolCalls |-> calls]
ChoiceText == Choice(Str("Hello!"), EmptyStr, Str("stop"), <<>>)
ChoiceBadAudio == Choice(EmptyStr, Str("%%%"), Str("stop"), <<>>)
ChoiceCall ==
    Choice(EmptyStr, EmptyStr, Str("tool_calls"), <<Call("call_1", "get_weather", "{}")>>)
ChoiceCalls ==
    Choice(EmptyStr, EmptyStr, Str("tool_calls"),
           <<Call("call_1", "get_weather", "{}"), Call("call_2", "echo", "ping")>>)
ChoiceMenu == {ChoiceText, ChoiceBadAudio, ChoiceCall, ChoiceCalls}

\* completions the wire client may return: zero, one or two choices
Completions ==
    {<<>>} \cup {<<c>> : c \in ChoiceMenu} \cup {<<c, d>> : c, d \in ChoiceMenu}

\* what Chat.Completions.New returns: the vendor rejects a request that
\* carries no key; otherwise a completion, a transport error, or the error of
\* the context cancelled during the call
WireOutcomes(client) ==
    IF client.apiKey = EmptyStr
    THEN {[choices |-> <<>>, err |-> ErrUnauthorized]}
    ELSE {[choices |-> cs, err |-> NoErr] : cs \in Completions}
         \cup {[choices |-> <<>>, err |-> e] : e \in {ErrTransport, ErrCanceled}}

\* the completions given to the assembly directly: one choice with up to
\* MaxCalls tool calls, alone or next to a choice without tool call
CallMenu ==
    {Call("call_1", "get_weather", "{}"), Call("call_2", "echo", "ping"),
     Call("call_3", "echo", "{}")}
AssembleChoices ==
    {Choice(c, EmptyStr, Str("tool_calls"), cs) :
        c \in {EmptyStr, Str("Checking.")}, cs \in SeqsUpTo(CallMenu, MaxCalls)}
AssembleCompletions ==
    {<<c>> : c \in AssembleChoices}
    \cup {<<c, ChoiceText>> : c \in AssembleChoices}
    \cup {<<ChoiceText, c>> : c \in AssembleChoices}
AssembleRequests ==
    {Request(QwenTurbo, ms, ts) : ms \in {MsgsHello, MsgsSystem},
                                  ts \in {ToolsBoth, ToolsFailing}}

\* chunks the wire client may deliver on a stream
Delta(index, content, finish, calls) ==
    [index |-> index, content |-> content, refusal |-> EmptyStr, finish |-> finish,
     toolCalls |-> calls]
CallDelta(index, id, name, arguments) ==
    [index |-> index, id |-> id, name |-> name, arguments |-> arguments]
ChunkHel == <<Delta(0, Str("Hel"), EmptyStr, <<>>)>>
ChunkLo == <<Delta(0, Str("lo"), Str("stop"), <<>>)>>
ChunkCall ==
    <<Delta(0, EmptyStr, Str("tool_calls"),
            <<CallDelta(0, Str("call_1"), Str("get_weather"), Str("{}"))>>)>>
ChunkSecondChoice ==
    <<Delta(1, EmptyStr, Str("tool_calls"),
            <<CallDelta(0, Str("call_2"), Str("echo"), Str("ping"))>>)>>
ChunkMenu == {ChunkHel, ChunkLo, ChunkCall, ChunkSecondChoice}

\* how the wire stream of depth d stops (stream.Err()): rejected by the
\* vendor when the client carries no key; otherwise at its end or, for the
\* outermost stream, on a transport error or on the caller's context being
\* cancelled; streams opened under a cancelled context stop on it at once
StreamEnds(client, d, canceled) ==
    IF client.apiKey = EmptyStr THEN {ErrUnauthorized}
    ELSE IF canceled THEN {ErrCanceled}
    ELSE IF d = 1 THEN {NoErr, ErrTransport, ErrCanceled}
    ELSE {NoErr}

ToolNames == {Str("get_weather"), Str("echo"), Str("nonexistent_tool")}
Arguments == {EmptyStr, Str("{}"), Str("ping")}

----------------------------------------------------------------------------
\* State.

NoRequest == Request("", <<>>, <<>>)
NoResult == [returned |-> FALSE, res |-> NilResponse, err |-> NoErr, pipe |-> FALSE]
Returned(res, err) == [returned |-> TRUE, res |-> res, err |-> err, pipe |-> FALSE]
NoActivation == [pc |-> "none", params |-> NoParams, maxIter |-> 0]
NotApplied ==
    [applied |-> FALSE, tools |-> <<>>, name |-> EmptyStr, arguments |-> EmptyStr,
     result |-> EmptyStr, err |-> NoErr, invs |-> <<>>]
NoConsumer == [rd |-> 0, ended |-> FALSE, err |-> NoErr]

Init ==
    /\ \E apiKey \in ApiKeyArgs, env \in Environments : provider = NewChatProvider(apiKey, env)
    /\ mode = "idle"
    /\ req = NoRequest
    /\ opt = NoOption
    /\ result = NoResult
    /\ g = NoActivation
    /\ frames = <<>>
    /\ consumer = NoConsumer
    /\ sent = <<>>
    /\ delivered = <<>>
    /\ received = <<>>
    /\ invoked = <<>>
    /\ tc = NotApplied

----------------------------------------------------------------------------
\* A test or caller applies toolCall directly (chat_test.go:342-399).
ToolCallOp ==
    /\ mode = "idle"
    /\ \E ts \in ToolLists, n \in ToolNames, a \in Arguments :
          LET r == toolCall(ts, n, a)
          IN /\ tc' = [applied |-> TRUE, tools |-> ts, name |-> n, arguments |-> a,
                       result |-> r.result, err |-> r.err, invs |-> r.invs]
             /\ invoked' = invoked \o r.invs
    /\ mode' = "toolCall"
    /\ UNCHANGED <<provider, req, opt, result, g, frames, consumer, sent, delivered, received>>

----------------------------------------------------------------------------
\* Generate (chat.go:332-342) up to its call of New.
Generate ==
    /\ mode = "idle"
    /\ \E r \in Requests, o \in Options :
          LET t == toChatCompletionParams(r)
          IN /\ req' = r
             /\ opt' = o
             /\ IF t.err # NoErr
                THEN /\ result' = Returned(NilResponse, t.err)
                     /\ g' = [NoActivation EXCEPT !.pc = "done"]
                ELSE /\ result' = result
                     /\ g' = [pc |-> "New", params |-> t.params,
                              maxIter |-> applyOptions(o)]
    /\ mode' = "generate"
    /\ UNCHANGED <<provider, frames, consumer, sent, delivered, received, invoked, tc>>

\* One activation of ChatProvider.New (chat.go:345-371); the recursive call
\* is the next activation, on the extended params and the decremented budget.
New ==
    /\ mode = "generate"
    /\ g.pc = "New"
    /\ IF budgetExhausted(g.maxIter)
       THEN /\ result' = Returned(NilResponse, ErrTooManyIterations)
            /\ g' = [g EXCEPT !.pc = "done"]
            /\ UNCHANGED <<sent, received, invoked>>
       ELSE \E w \in WireOutcomes(provider.client) :
            /\ sent' = Append(sent, g.params.messages)
            /\ received' = Append(received, w)
            /\ IF w.err # NoErr
               THEN /\ result' = Returned(NilResponse, w.err)
                    /\ g' = [g EXCEPT !.pc = "done"]
                    /\ UNCHANGED invoked
               ELSE LET a == choiceToResponse(g.params.messages, req.tools, w.choices)
                        p == [g.params EXCEPT !.messages = a.messages]
                    IN /\ invoked' = invoked \o a.invs
                       /\ IF a.err # NoErr
                          THEN /\ result' = Returned(NilResponse, a.err)
                               /\ g' = [g EXCEPT !.pc = "done", !.params = p]
                          ELSE IF nextToolMessage(a.res.messages, 1) # 0
                          THEN /\ result' = result
                               /\ g' = [pc |-> "New", params |-> p,
                                        maxIter |-> g.maxIter - 1]
                          ELSE /\ result' = Returned(a.res, NoErr)
                               /\ g' = [g EXCEPT !.pc = "done", !.params = p]
    /\ UNCHANGED <<provider, mode, req, opt, frames, consumer, delivered, tc>>

\* The chain of activations of New (chat.go:345-371) against a scripted
\* sequence of completions, from the k-th on: the message lists it submits
\* and the handler invocations it makes.
RECURSIVE NewOn(_, _, _, _, _)
NewOn(messages, tools, maxIter, script, k) ==
    IF budgetExhausted(maxIter) THEN [sent |-> <<>>, invs |-> <<>>]
    ELSE IF k > Len(script) THEN [sent |-> <<messages>>, invs |-> <<>>]
    ELSE LET a == choiceToResponse(messages, tools, script[k])
         IN IF a.err # NoErr \/ nextToolMessage(a.res.messages, 1) = 0
            THEN [sent |-> <<messages>>, invs |-> a.invs]
            ELSE LET r == NewOn(a.messages, tools, maxIter - 1, script, k + 1)
                 IN [sent |-> <<messages>> \o r.sent, invs |-> a.invs \o r.invs]

----------------------------------------------------------------------------
\* One activation of NewStreaming (chat.go:390-438): its goroutine and pipe.
\* A step of a goroutine ends at its pipe.Send, which waits for room.
NewFrame(params, maxIter, stream) ==
    [params |-> params, maxIter |-> maxIter, stream |-> stream, pc |-> "reading",
     acc |-> <<>>, wireErr |-> NoErr, ended |-> FALSE, last |-> <<>>, i |-> 0,
     pipe |-> NewStreamPipe]

Top == Len(frames)

\* the caller's context was cancelled while the outermost stream was read
Canceled == Top >= 1 /\ frames[1].wireErr = ErrCanceled

\* NewStream (chat.go:374-387) with the NewStreaming call it ends in: the
\* stream is opened and the goroutine started before it returns the pipe.
NewStream ==
    /\ mode = "idle"
    /\ \E r \in StreamRequests, o \in Options :
          LET maxIter == applyOptions(o)
              t == toChatCompletionParams(r)
          IN /\ req' = r
             /\ opt' = o
             /\ IF maxIter <= 0
                THEN /\ result' = Returned(NilResponse, ErrTooManyIterations)
                     /\ UNCHANGED <<frames, sent>>
                ELSE IF t.err # NoErr
                THEN /\ result' = Returned(NilResponse, t.err)
                     /\ UNCHANGED <<frames, sent>>
                ELSE IF budgetExhausted(maxIter)
                THEN /\ result' = Returned(NilResponse, ErrTooManyIterations)
                     /\ UNCHANGED <<frames, sent>>
                ELSE /\ sent' = Append(sent, t.params.messages)
                     /\ frames' = <<NewFrame(t.params, maxIter, Len(sent) + 1)>>
                     /\ result' = [returned |-> TRUE, res |-> NilResponse,
                                   err |-> NoErr, pipe |-> TRUE]
    /\ mode' = "stream"
    /\ UNCHANGED <<provider, g, consumer, delivered, received, invoked, tc>>

\* The error each entry point returns before it calls the wire client, NoErr
\* when it gets as far as calling it: Generate translates first and New then
\* checks the budget (chat.go:337-341, 348-350); NewStream checks the budget,
\* then translates, and NewStreaming checks the budget again
\* (chat.go:379-386, 393-395).
GenerateRejects(r, o) ==
    LET t == toChatCompletionParams(r)
    IN IF t.err # NoErr THEN t.err
       ELSE IF budgetExhausted(applyOptions(o)) THEN ErrTooManyIterations
       ELSE NoErr

NewStreamRejects(r, o) ==
    LET maxIter == applyOptions(o)
        t == toChatCompletionParams(r)
    IN IF maxIter <= 0 THEN ErrTooManyIterations
       ELSE IF t.err # NoErr THEN t.err
       ELSE IF budgetExhausted(maxIter) THEN ErrTooManyIterations
       ELSE NoErr

\* stream.Next() delivered a chunk, which is accumulated, converted and sent
\* (chat.go:400-407).
StreamChunk ==
    /\ mode = "stream" /\ Top > 0
    /\ frames[Top].pc = "reading"
    /\ PipeHasRoom(frames[Top].pipe)
    /\ Len(delivered) < MaxChunks
    /\ provider.client.apiKey # EmptyStr
    /\ ~Canceled
    /\ \E chunk \in ChunkMenu :
          LET f == frames[Top]
              r == chunkChoiceToResponse(chunk)
          IN /\ delivered' = Append(delivered, [stream |-> f.stream, chunk |-> chunk])
             /\ frames' = [frames EXCEPT ![Top] =
                              [f EXCEPT !.acc = AddChunk(f.acc, chunk),
                                        !.pipe = PipeSend(@, r.res)]]
    /\ UNCHANGED <<provider, mode, req, opt, result, g, consumer, sent, received, invoked, tc>>

\* stream.Next() returned false, at the end of the stream or on its error
\* (chat.go:400, 409-413): the accumulated choices are assembled and the
\* consolidated response sent.
StreamEnd ==
    /\ mode = "stream" /\ Top > 0
    /\ frames[Top].pc = "reading"
    /\ PipeHasRoom(frames[Top].pipe)
    /\ \E e \in StreamEnds(provider.client, Top, Canceled) :
          LET f == frames[Top]
              a == choiceToResponse(f.params.messages, req.tools, f.acc)
              f1 == [f EXCEPT !.wireErr = e, !.ended = TRUE,
                              !.params.messages = a.messages]
          IN /\ received' = Append(received, [choices |-> f.acc, err |-> NoErr])
             /\ invoked' = invoked \o a.invs
             /\ frames' = [frames EXCEPT ![Top] =
                    IF a.err # NoErr
                    THEN [f1 EXCEPT !.pc = "done", !.pipe = PipeFinish(@, a.err)]
                    ELSE [f1 EXCEPT !.pc = "loop", !.last = a.res.messages, !.i = 1,
                                    !.pipe = PipeSend(@, a.res)]]
    /\ UNCHANGED <<provider, mode, req, opt, result, g, consumer, sent, delivered, tc>>

\* the loop over lastResponse.Messages (chat.go:414-435): at the next
\* tool-role message the budget is decremented and NewStreaming called again.
StreamLoop ==
    /\ mode = "stream" /\ Top > 0
    /\ frames[Top].pc = "loop"
    /\ LET f == frames[Top]
           j == nextToolMessage(f.last, f.i)
       IN IF j = 0
          THEN /\ frames' = [frames EXCEPT ![Top] =
                    [f EXCEPT !.pc = "done", !.pipe = PipeFinish(@, NoErr)]]
               /\ UNCHANGED sent
          ELSE IF budgetExhausted(f.maxIter - 1)
          THEN /\ frames' = [frames EXCEPT ![Top] =
                    [f EXCEPT !.pc = "done", !.maxIter = @ - 1, !.i = j,
                              !.pipe = PipeFinish(@, ErrTooManyIterations)]]
               /\ UNCHANGED sent
          ELSE /\ sent' = Append(sent, f.params.messages)
               /\ frames' = Append(
                    [frames EXCEPT ![Top] =
                        [f EXCEPT !.pc = "relay", !.maxIter = @ - 1, !.i = j]],
                    NewFrame(f.params, f.maxIter - 1, Len(sent) + 1))
    /\ UNCHANGED <<provider, mode, req, opt, result, g, consumer, delivered, received, invoked, tc>>

\* a relay that drops the item it read
relayItemDropped(f, cur) ==
    IF cur.err # NoErr
    THEN [f EXCEPT !.pc = "done", !.pipe = PipeFinish(@, cur.err)]
    ELSE f

\* a relay that also records the messages it relays in the running list
relayItemAccumulates(f, cur) ==
    IF cur.err # NoErr
    THEN [f EXCEPT !.pc = "done", !.pipe = PipeFinish(@, cur.err)]
    ELSE [f EXCEPT !.pipe = PipeSend(@, cur.res),
                   !.params.messages =
                        @ \o [n \in 1 .. Len(cur.res.messages) |->
                                WireMsg(cur.res.messages[n].role, EmptyStr, <<>>, <<>>,
                                        EmptyStr)]]

\* the body of the relay loop (chat.go:427-431): the item read from the
\* nested stream is sent on, or its error returned
relayItem(f, cur) ==
    IF cur.err # NoErr
    THEN [f EXCEPT !.pc = "done", !.pipe = PipeFinish(@, cur.err)]
    ELSE [f EXCEPT !.pipe = PipeSend(@, cur.res)]

\* the relay loop over the nested stream (chat.go:426-432): an item of the
\* nested pipe is sent on, or the nested pipe is at its end and the loop over
\* the messages goes on.
Relay ==
    /\ mode = "stream"
    /\ \E d \in 1 .. Top - 1 :
          LET f == frames[d]
              child == frames[d + 1]
          IN /\ f.pc = "relay"
             /\ IF PipeHasNext(child.pipe)
                THEN LET p == PipeNext(child.pipe)
                         cur == PipeCurrent(p)
                     IN /\ cur.err = NoErr => PipeHasRoom(f.pipe)
                        /\ frames' = [frames EXCEPT
                            ![d + 1] = [child EXCEPT !.pipe = p],
                            ![d] = relayItem(f, cur)]
                ELSE /\ PipeAtEnd(child.pipe)
                     /\ d + 1 = Top
                     /\ frames' = [SubSeq(frames, 1, d) EXCEPT ![d] =
                                      [f EXCEPT !.pc = "loop", !.i = @ + 1]]
    /\ UNCHANGED <<provider, mode, req, opt, result, g, consumer, sent, delivered, received, invoked,
                   tc>>

\* the caller's for stream.Next() { stream.Current() } over the returned pipe
Consume ==
    /\ mode = "stream" /\ Top > 0
    /\ ~consumer.ended
    /\ LET p == frames[1].pipe
       IN IF PipeHasNext(p)
          THEN /\ frames' = [frames EXCEPT ![1].pipe = PipeNext(p)]
               /\ consumer' = [consumer EXCEPT !.rd = @ + 1]
          ELSE /\ PipeAtEnd(p)
               /\ consumer' = [consumer EXCEPT !.ended = TRUE, !.err = p.err]
               /\ UNCHANGED frames
    /\ UNCHANGED <<provider, mode, req, opt, result, g, sent, delivered, received, invoked, tc>>

\* A test or caller applies toChatCompletionParams directly
\* (chat_test.go:145-226).
Translate ==
    /\ mode = "idle"
    /\ \E r \in TranslateRequests :
          LET t == toChatCompletionParams(r)
          IN /\ req' = r
             /\ g' = [NoActivation EXCEPT !.pc = "done", !.params = t.params]
             /\ result' = Returned(NilResponse, t.err)
    /\ mode' = "translate"
    /\ UNCHANGED <<provider, opt, frames, consumer, sent, delivered, received, invoked, tc>>

\* The assistant turns of a translated request come back as the contents of
\* the choices of a completion, which choiceToResponse assembles.
RoundTrip ==
    /\ mode = "translate"
    /\ result.err = NoErr
    /\ LET turns == SelectSeq(g.params.messages, LAMBDA w : w.role = RoleAssistant)
           choices == [k \in 1 .. Len(turns) |->
                          Choice(turns[k].text, EmptyStr, Str("stop"), <<>>)]
           a == choiceToResponse(g.params.messages, req.tools, choices)
       IN /\ received' = Append(received, [choices |-> choices, err |-> NoErr])
          /\ result' = Returned(a.res, a.err)
          /\ g' = [g EXCEPT !.params.messages = a.messages]
          /\ invoked' = invoked \o a.invs
    /\ mode' = "roundtrip"
    /\ UNCHANGED <<provider, req, opt, frames, consumer, sent, delivered, tc>>

\* A test or caller applies choiceToResponse directly to the translated
\* request and a completion.
Assemble ==
    /\ mode = "idle"
    /\ \E r \in AssembleRequests, choices \in AssembleCompletions :
          LET t == toChatCompletionParams(r)
              a == choiceToResponse(t.params.messages, r.tools, choices)
          IN /\ req' = r
             /\ received' = Append(received, [choices |-> choices, err |-> NoErr])
             /\ g' = [NoActivation EXCEPT
                        !.pc = "done", !.params = [t.params EXCEPT !.messages = a.messages]]
             /\ result' = Returned(a.res, a.err)
             /\ invoked' = invoked \o a.invs
    /\ mode' = "assemble"
    /\ UNCHANGED <<provider, opt, frames, consumer, sent, delivered, tc>>

Next ==
    \/ ToolCallOp
    \/ Generate
    \/ New
    \/ NewStream
    \/ StreamChunk
    \/ StreamEnd
    \/ StreamLoop
    \/ Relay
    \/ Consume

Spec == Init /\ [][Next]_vars

\* The streaming entry point alone.
NextStream ==
    \/ NewStream
    \/ StreamChunk
    \/ StreamEnd
    \/ StreamLoop
    \/ Relay
    \/ Consume

SpecStream == Init /\ [][NextStream]_vars

\* The translation and the assembly applied directly.
NextApplied ==
    \/ Translate
    \/ RoundTrip
    \/ Assemble

SpecApplied == Init /\ [][NextApplied]_vars

\* The non-streaming entry point alone. Generate runs on the caller's
\* goroutine and each activation of New is a blocking call that returns, so
\* an activation that is entered is carried out.
NextGenerate ==
    \/ Generate
    \/ New

SpecGenerate == Init /\ [][NextGenerate]_vars /\ WF_vars(New)

----------------------------------------------------------------------------
\* Vocabulary of the properties.

SupportedModels ==
    {"qwen-turbo", "qwen-plus", "qwen-max", "qwen-long", "qwen-vl-plus", "qwen-audio-turbo"}

IsPrefix(s, t) == Len(s) <= Len(t) /\ SubSeq(t, 1, Len(s)) = s
IsStrictPrefix(s, t) == Len(s) < Len(t) /\ IsPrefix(s, t)

\* the request is one that translation accepts: a supported model, at least
\* one message, tools whose schemas serialize
TranslationPasses ==
    /\ req.model \in SupportedModels
    /\ Len(req.messages) > 0
    /\ \A t \in 1 .. Len(req.tools) : req.tools[t].schema # "bad"

\* the MaxIterations the caller asked for, 3 when no option was given
RequestedIterations == IF opt.given THEN opt.maxIterations ELSE DefaultMaxIterations

HasToolCall(choices) == \E i \in 1 .. Len(choices) : Len(choices[i].toolCalls) > 0
NoToolCall(choices) == \A i \in 1 .. Len(choices) : Len(choices[i].toolCalls) = 0
AudioDecodes(choices) ==
    \A i \in 1 .. Len(choices) : Base64Decode(choices[i].audio).err = NoErr
CallsSucceed(choices, tools) ==
    \A i \in 1 .. Len(choices) : \A k \in 1 .. Len(choices[i].toolCalls) :
        LET call == choices[i].toolCalls[k]
        IN \E t \in 1 .. Len(tools) :
              /\ tools[t].name = call.name
              /\ \A u \in 1 .. t - 1 : tools[u].name # call.name
              /\ tools[t].handler # "fail"

\* every completion received so far arrived without error, decodes, and asks
\* for at least one tool, all of its calls being to tools that succeed
EveryResponseCallsATool ==
    \A k \in 1 .. Len(received) :
        /\ received[k].err = NoErr
        /\ AudioDecodes(received[k].choices)
        /\ HasToolCall(received[k].choices)
        /\ CallsSucceed(received[k].choices, req.tools)

AllStatus(res, status) ==
    \A i \in 1 .. Len(res.messages) : res.messages[i].status = status

\* the chunks delivered on the stream opened by the s-th wire request
ChunksOf(s) == SelectSeq(delivered, LAMBDA d : d.stream = s)

\* What an assembly of a list of choices meets, in order: for each choice its
\* audio payload, when it has one, then its tool calls.
RECURSIVE EventsFrom(_, _)
EventsFrom(choices, i) ==
    IF i > Len(choices) THEN <<>>
    ELSE (IF choices[i].audio # EmptyStr
          THEN <<[kind |-> "audio", choice |-> i, audio |-> choices[i].audio,
                  call |-> EmptyCall]>>
          ELSE <<>>)
         \o [k \in 1 .. Len(choices[i].toolCalls) |->
                [kind |-> "call", choice |-> i, audio |-> EmptyStr,
                 call |-> choices[i].toolCalls[k]]]
         \o EventsFrom(choices, i + 1)

Events(choices) == EventsFrom(choices, 1)

\* the tool that answers to a name: the first of that name, 0 when none has it
FirstNamed(tools, name) ==
    IF \E t \in 1 .. Len(tools) : tools[t].name = name
    THEN CHOOSE t \in 1 .. Len(tools) :
            /\ tools[t].name = name
            /\ \A u \in 1 .. t - 1 : tools[u].name # name
    ELSE 0

\* the error a tool call ends in, NoErr when its handler succeeds
CallError(tools, call) ==
    IF FirstNamed(tools, call.name) = 0 THEN ErrToolNotFound
    ELSE IF tools[FirstNamed(tools, call.name)].handler = "fail" THEN ErrHandler
    ELSE NoErr

EventFails(tools, ev) ==
    IF ev.kind = "audio" THEN Base64Decode(ev.audio).err # NoErr
    ELSE CallError(tools, ev.call) # NoErr

\* the first event that fails, 0 when none does
FirstFailure(tools, evs) ==
    IF \E n \in 1 .. Len(evs) : EventFails(tools, evs[n])
    THEN CHOOSE n \in 1 .. Len(evs) :
            /\ EventFails(tools, evs[n])
            /\ \A m \in 1 .. n - 1 : ~EventFails(tools, evs[m])
    ELSE 0

\* the handler invocations due for a list of choices: one per tool call that
\* names a tool, up to and including the first event that fails
InvocationsDue(tools, choices) ==
    LET evs == Events(choices)
        stop == FirstFailure(tools, evs)
        upTo == IF stop = 0 THEN evs ELSE SubSeq(evs, 1, stop)
        calls == SelectSeq(upTo,
                    LAMBDA ev : ev.kind = "call" /\ FirstNamed(tools, ev.call.name) # 0)
    IN [n \in 1 .. Len(calls) |->
            [tool |-> FirstNamed(tools, calls[n].call.name),
             name |-> calls[n].call.name, arguments |-> calls[n].call.arguments]]

\* the invocations due for the first k completions received
RECURSIVE InvocationsDueUpTo(_)
InvocationsDueUpTo(k) ==
    IF k = 0 THEN <<>>
    ELSE InvocationsDueUpTo(k - 1)
         \o (IF received[k].err = NoErr
             THEN InvocationsDue(req.tools, received[k].choices)
             ELSE <<>>)

----------------------------------------------------------------------------
\* C1 as stated: with MaxIterations = N >= 1, a valid request and a model whose
\* every response asks for a tool that succeeds, Generate makes exactly N
\* request cycles and then returns the last response, not an error.
C1_ReturnsLastResponse ==
    (/\ mode = "generate"
     /\ result.returned
     /\ TranslationPasses
     /\ RequestedIterations >= 1
     /\ EveryResponseCallsATool)
    => (/\ Len(sent) = RequestedIterations
        /\ result.err = NoErr
        /\ ~result.res.nil)

\* C1 amended: under the same conditions Generate makes exactly N request
\* cycles, never more, and then fails with ErrTooManyIterations, returning no
\* response: the budget left is N minus the cycles made, and the activation
\* entered with no budget left rejects.
C1_BudgetExhaustion ==
    (/\ mode = "generate"
     /\ TranslationPasses
     /\ RequestedIterations >= 1
     /\ EveryResponseCallsATool)
    => (/\ Len(sent) <= RequestedIterations
        /\ Len(received) = Len(sent)
        /\ g.maxIter = RequestedIterations - Len(sent)
        /\ result.returned =>
              (/\ Len(sent) = RequestedIterations
               /\ result.err = ErrTooManyIterations
               /\ result.res.nil))

C1_Witness ==
    /\ mode = "generate"
    /\ result.returned
    /\ opt = WithMaxIterations(2)
    /\ EveryResponseCallsATool
    /\ Len(sent) = 2
    /\ Len(invoked) >= 2
    /\ result.err = ErrTooManyIterations

\* C2 as stated: when the outermost wire stream stops on a transport error
\* after k chunks, the output holds the k partial items and nothing more, and
\* it terminates with that error as its terminal error.
C2_TransportErrorTerminates ==
    (/\ mode = "stream"
     /\ Top >= 1
     /\ frames[1].ended
     /\ frames[1].wireErr = ErrTransport)
    => (/\ Len(frames[1].pipe.hist) = Len(ChunksOf(1))
        /\ frames[1].pipe.closed
        /\ frames[1].pipe.err = ErrTransport)

\* C3: a stream of n chunks that ends without error and accumulates no tool
\* call gives the consumer exactly n partial items, incomplete and in arrival
\* order, then one completed final item, and then ends without error.
C3_StreamingOrder ==
    (/\ mode = "stream"
     /\ Top >= 1
     /\ frames[1].ended
     /\ frames[1].wireErr = NoErr
     /\ NoToolCall(frames[1].acc))
    => LET chunks == ChunksOf(1)
           n == Len(chunks)
           out == frames[1].pipe.hist
       IN /\ Top = 1
          /\ Len(out) = n + 1
          /\ \A k \in 1 .. n :
                /\ out[k] = chunkChoiceToResponse(chunks[k].chunk).res
                /\ Len(out[k].messages) = Len(chunks[k].chunk)
                /\ AllStatus(out[k], StatusIncomplete)
          /\ Len(out[n + 1].messages) = Len(frames[1].acc)
          /\ AllStatus(out[n + 1], StatusCompleted)
          /\ frames[1].pipe.err = NoErr
          /\ frames[1].pipe.rd = consumer.rd
          /\ consumer.ended => (consumer.rd = n + 1 /\ consumer.err = NoErr)

C3_Witness ==
    /\ mode = "stream"
    /\ Top = 1
    /\ frames[1].ended
    /\ frames[1].wireErr = NoErr
    /\ NoToolCall(frames[1].acc)
    /\ Len(ChunksOf(1)) = 3
    /\ ChunksOf(1)[1].chunk # ChunksOf(1)[2].chunk
    /\ consumer.ended
    /\ consumer.rd = 4

\* C4: with MaxIterations < 1 and a request that passes translation, Generate
\* and NewStream both fail with ErrTooManyIterations, and no completion
\* request is sent and no stream opened.
C4_TooManyIterations ==
    (/\ mode \in {"generate", "stream"}
     /\ RequestedIterations < 1
     /\ TranslationPasses)
    => (/\ Len(sent) = 0
        /\ frames = <<>>
        /\ mode = "stream" => result.returned
        /\ mode = "generate" => (result.returned \/ g.pc = "New")
        /\ result.returned =>
              (result.err = ErrTooManyIterations /\ result.res.nil /\ ~result.pipe))

C4_Witness ==
    /\ mode = "generate"
    /\ opt = WithMaxIterations(0)
    /\ TranslationPasses
    /\ result.returned
    /\ result.err = ErrTooManyIterations
    /\ Len(sent) = 0

\* C5: a model identifier outside the six supported names, the empty string
\* included, fails translation with ErrInvalidModel and Generate calls the
\* wire client not once; an identifier among the six passes the model check.
C5_InvalidModel ==
    mode = "generate" =>
        IF req.model \in SupportedModels
        THEN /\ isValidModel(req.model)
             /\ result.err # ErrInvalidModel
        ELSE /\ toChatCompletionParams(req).err = ErrInvalidModel
             /\ result.returned
             /\ result.err = ErrInvalidModel
             /\ result.res.nil
             /\ g.pc = "done"
             /\ Len(sent) = 0

C5_Witness ==
    /\ mode = "generate"
    /\ req.model = ""
    /\ Len(req.messages) > 0
    /\ result.returned
    /\ result.err = ErrInvalidModel
    /\ Len(sent) = 0

\* C6: a request with a supported model and no message fails translation
\* with the empty-messages error and neither Generate nor NewStream calls the
\* wire client; with a supported model, at least one message and translatable
\* tools, translation does not fail.
C6_EmptyMessages ==
    (mode \in {"generate", "stream"} /\ req.model \in SupportedModels) =>
        IF Len(req.messages) = 0
        THEN /\ toChatCompletionParams(req).err = ErrEmptyMessages
             /\ Len(sent) = 0
             /\ frames = <<>>
             /\ result.returned
             /\ result.res.nil /\ ~result.pipe
             /\ mode = "generate" => result.err = ErrEmptyMessages
             /\ (mode = "stream" /\ RequestedIterations >= 1)
                    => result.err = ErrEmptyMessages
        ELSE TranslationPasses
                => (/\ toChatCompletionParams(req).err = NoErr
                    /\ result.err \notin {ErrEmptyMessages, ErrInvalidModel, ErrSchema}
                    /\ mode = "generate" => g.pc # "none")

C6_Witness ==
    /\ mode = "stream"
    /\ req.model \in SupportedModels
    /\ req.messages = <<>>
    /\ RequestedIterations >= 1
    /\ result.returned
    /\ result.err = ErrEmptyMessages
    /\ Len(sent) = 0

\* C7 as stated: when the wire client returns a completion with zero choices,
\* Generate returns ErrEmptyResponse, not a response without messages.
C7_EmptyResponse ==
    (/\ mode = "generate"
     /\ result.returned
     /\ Len(received) >= 1
     /\ received[Len(received)].err = NoErr
     /\ received[Len(received)].choices = <<>>)
    => (result.err = ErrEmptyResponse /\ result.res.nil)

\* C8 as stated: along a call chain the message list of request cycle k+1 has
\* the list of cycle k as a strict prefix.
C8_StrictAccumulation ==
    \A k \in 1 .. Len(sent) - 1 : IsStrictPrefix(sent[k], sent[k + 1])

\* C9 as stated: when the first wire response has no tool call in any choice,
\* Generate makes one request cycle, invokes no handler, appends nothing to
\* the running message list and returns that response.
C9_ReturnsFirstResponse ==
    (/\ mode = "generate"
     /\ Len(received) >= 1
     /\ received[1].err = NoErr
     /\ NoToolCall(received[1].choices))
    => (/\ Len(sent) = 1
        /\ invoked = <<>>
        /\ g.params.messages = sent[1]
        /\ result.returned
        /\ result.err = NoErr
        /\ ~result.res.nil)

\* C9 amended: under the same condition Generate makes one request cycle,
\* invokes no handler, appends nothing to the running message list beyond the
\* translated initial turn, and returns that response, one completed
\* assistant message per choice, unless the audio of a choice does not
\* decode, in which case it returns the decode error and no response.
C9_NoToolCallsOneCycle ==
    (/\ mode = "generate"
     /\ Len(received) >= 1
     /\ received[1].err = NoErr
     /\ NoToolCall(received[1].choices))
    => (/\ Len(sent) = 1
        /\ Len(received) = 1
        /\ invoked = <<>>
        /\ g.params.messages = sent[1]
        /\ sent[1] = toWireMessages(req.messages, 1)
        /\ g.pc = "done"
        /\ result.returned
        /\ IF AudioDecodes(received[1].choices)
           THEN /\ result.err = NoErr
                /\ ~result.res.nil
                /\ Len(result.res.messages) = Len(received[1].choices)
                /\ \A i \in 1 .. Len(result.res.messages) :
                      LET m == result.res.messages[i]
                          c == received[1].choices[i]
                      IN /\ m.role = RoleAssistant
                         /\ m.status = StatusCompleted
                         /\ m.toolCalls = <<>>
                         /\ c.content # EmptyStr => m.parts[1] = TextPart(c.content)
           ELSE /\ result.err = ErrBase64
                /\ result.res.nil)

C9_Witness ==
    /\ mode = "generate"
    /\ Len(received) = 1
    /\ received[1].err = NoErr
    /\ Len(received[1].choices) = 2
    /\ NoToolCall(received[1].choices)
    /\ AudioDecodes(received[1].choices)
    /\ req.tools = ToolsBoth
    /\ result.returned
    /\ result.err = NoErr
    /\ Len(result.res.messages) = 2

\* C10: toolCall with the name of a tool in the set invokes that tool's
\* handler (the first of that name) exactly once with the given arguments
\* and returns the handler's result and error unchanged; with a name of no
\* tool it invokes no handler and returns the empty string with
\* ErrToolNotFound.
C10_ToolDispatch ==
    tc.applied =>
        LET named == {i \in 1 .. Len(tc.tools) : tc.tools[i].name = tc.name}
        IN IF named # {}
           THEN LET first == CHOOSE i \in named : \A j \in named : i <= j
                    h == Handle(tc.tools[first], tc.arguments)
                IN /\ tc.invs = <<[tool |-> first, name |-> tc.name,
                                   arguments |-> tc.arguments]>>
                   /\ invoked = tc.invs
                   /\ tc.result = h.result
                   /\ tc.err = h.err
           ELSE /\ tc.invs = <<>>
                /\ invoked = <<>>
                /\ tc.result = EmptyStr
                /\ tc.err = ErrToolNotFound

C10_Witness ==
    /\ tc.applied
    /\ tc.tools = ToolsFailing
    /\ tc.name = Str("echo")
    /\ tc.arguments = Str("ping")
    /\ Len(invoked) = 1
    /\ tc.result = Str("partial")
    /\ tc.err = ErrHandler

\* C11: when a tool call of a wire response fails (no tool of that name, or
\* its handler returns an error), Generate returns that error and no response,
\* makes no further request cycle, and of that response invokes the handlers
\* of the calls up to the failing one and of no call after it.
C11_NoPartialSuccess ==
    (/\ mode = "generate"
     /\ Len(received) >= 1
     /\ received[Len(received)].err = NoErr)
    => LET k == Len(received)
           evs == Events(received[k].choices)
           stop == FirstFailure(req.tools, evs)
       IN (stop # 0 /\ evs[stop].kind = "call")
          => (/\ result.returned
              /\ result.res.nil
              /\ result.err = CallError(req.tools, evs[stop].call)
              /\ g.pc = "done"
              /\ Len(sent) = k
              /\ invoked = InvocationsDueUpTo(k - 1)
                            \o InvocationsDue(req.tools, received[k].choices)
              /\ Len(invoked) - Len(InvocationsDueUpTo(k - 1)) <= stop)

C11_Witness ==
    /\ mode = "generate"
    /\ req.tools = ToolsFailing
    /\ Len(received) = 2
    /\ received[2] = [choices |-> <<ChoiceCalls, ChoiceCall>>, err |-> NoErr]
    /\ result.returned
    /\ result.err = ErrHandler
    /\ Len(invoked) = Len(InvocationsDueUpTo(1)) + 2

\* the tool calls of the completions received so far, in order
RECURSIVE CallsReceivedUpTo(_)
CallsReceivedUpTo(k) ==
    IF k = 0 THEN <<>>
    ELSE CallsReceivedUpTo(k - 1)
         \o SelectSeq(Events(received[k].choices), LAMBDA ev : ev.kind = "call")

\* C12 as stated: along a call chain of Generate or NewStream every tool call
\* of every consolidated wire response is invoked exactly once.
C12_EveryCallInvokedOnce ==
    mode \in {"generate", "stream"} =>
        LET calls == CallsReceivedUpTo(Len(received))
        IN /\ Len(invoked) = Len(calls)
           /\ \A n \in 1 .. Len(calls) :
                 /\ invoked[n].name = calls[n].call.name
                 /\ invoked[n].arguments = calls[n].call.arguments

\* C12 amended: along a call chain of Generate or NewStream the handler
\* invocations are exactly those due for the consolidated responses received,
\* in order: one per tool call that assembly reaches and that names a tool,
\* none for a call after the first failure of its response, and never two
\* for one call. Decoding a chunk invokes nothing: partial items carry the
\* id, name and arguments of a tool call with an empty result.
C12_InvokedAsDue ==
    mode \in {"generate", "stream"} =>
        /\ invoked = InvocationsDueUpTo(Len(received))
        /\ Len(invoked) <= Len(CallsReceivedUpTo(Len(received)))
        /\ \A d \in 1 .. Top : \A n \in 1 .. Len(frames[d].pipe.hist) :
              \A i \in 1 .. Len(frames[d].pipe.hist[n].messages) :
                 LET m == frames[d].pipe.hist[n].messages[i]
                 IN m.status = StatusIncomplete =>
                       \A c \in 1 .. Len(m.toolCalls) : m.toolCalls[c].result = EmptyStr

C12_Witness ==
    /\ mode = "stream"
    /\ Top >= 1
    /\ Len(received) = 1
    /\ Len(frames[1].pipe.hist) = 2
    /\ Len(frames[1].pipe.hist[1].messages) = 1
    /\ Len(frames[1].pipe.hist[1].messages[1].toolCalls) = 1
    /\ Len(frames[1].pipe.hist[2].messages) = 1
    /\ Len(frames[1].pipe.hist[2].messages[1].toolCalls) = 1
    /\ frames[1].pipe.hist[1].messages[1].status = StatusIncomplete
    /\ frames[1].pipe.hist[1].messages[1].toolCalls[1].name = Str("get_weather")
    /\ frames[1].pipe.hist[1].messages[1].toolCalls[1].result = EmptyStr
    /\ frames[1].pipe.hist[2].messages[1].toolCalls[1].result = Str("Beijing: Sunny, 25C")
    /\ Len(CallsReceivedUpTo(1)) = 1
    /\ Len(invoked) = 1

\* C13 as stated: once the caller's context is cancelled during the wire call
\* of Generate, Generate returns the context's error without another cycle or
\* invocation; once it is cancelled while the outermost stream is read, no
\* handler is invoked, no further stream opened and no consolidated item
\* emitted: the output holds the partial items of the chunks read and no more.
C13_CancellationAborts ==
    /\ (/\ mode = "generate"
        /\ Len(received) >= 1
        /\ received[Len(received)].err = ErrCanceled)
       => (/\ result.returned
           /\ result.res.nil
           /\ result.err = ErrCanceled
           /\ Len(sent) = Len(received)
           /\ invoked = InvocationsDueUpTo(Len(received) - 1))
    /\ (mode = "stream" /\ Canceled)
       => (/\ Top = 1
           /\ Len(sent) = 1
           /\ invoked = <<>>
           /\ Len(frames[1].pipe.hist) = Len(ChunksOf(1)))

\* the consolidated responses received so far, as a script of completions
Script == [k \in 1 .. Len(received) |-> received[k].choices]

\* C14 as stated: a NewStream call chain that ran to its end without a wire
\* error submitted the same message lists, in the same number, and made the
\* same handler invocations as Generate makes for the same request, tools,
\* options and scripted responses, and at most one request per unit of budget.
C14_StreamMirrorsGenerate ==
    (/\ mode = "stream"
     /\ Top >= 1
     /\ frames[1].pipe.closed
     /\ frames[1].wireErr = NoErr)
    => LET r == NewOn(sent[1], req.tools, RequestedIterations, Script, 1)
       IN /\ sent = r.sent
          /\ invoked = r.invs
          /\ Len(sent) <= RequestedIterations

\* the items the stream opened by the s-th request produced so far: one
\* partial item per chunk, then, once it ended and its accumulation was
\* assembled, the consolidated item
ProducedBy(s) ==
    LET chunks == ChunksOf(s)
    IN [k \in 1 .. Len(chunks) |-> chunkChoiceToResponse(chunks[k].chunk).res]
       \o (IF s <= Len(received)
           THEN LET a == choiceToResponse(sent[s], req.tools, received[s].choices)
                IN IF a.err = NoErr THEN <<a.res>> ELSE <<>>
           ELSE <<>>)

\* the items of every stream opened so far, stream by stream
ProducedPerStream == [s \in 1 .. Len(sent) |-> ProducedBy(s)]

\* the items of the s-th and all later streams of per, in order of opening
RECURSIVE ProducedFrom(_, _)
ProducedFrom(per, s) ==
    IF s > Len(per) THEN <<>> ELSE per[s] \o ProducedFrom(per, s + 1)

\* C15: the output of a stream is, item for item, its own partial items, its
\* consolidated item, and then the items of the streams nested in it in the
\* order they produced them, none lost or duplicated; a stream ends only
\* after everything nested in it was relayed, and the consumer of the
\* outermost stream has then read every item.
C15_RelayOrder ==
    (mode = "stream" /\ Top >= 1) =>
        LET per == ProducedPerStream
        IN /\ \A d \in 1 .. Top :
                 LET out == frames[d].pipe.hist
                     all == ProducedFrom(per, frames[d].stream)
                 IN /\ IsPrefix(out, all)
                    /\ frames[d].pipe.closed => out = all
           /\ consumer.rd = frames[1].pipe.rd
           /\ consumer.ended =>
                 (frames[1].pipe.closed /\ consumer.rd = Len(ProducedFrom(per, 1)))

C15_Witness ==
    /\ mode = "stream"
    /\ Top = 1
    /\ Len(sent) = 2
    /\ Len(ChunksOf(1)) = 1
    /\ Len(ChunksOf(2)) = 2
    /\ Len(received) = 2
    /\ Len(frames[1].pipe.hist) = 5
    /\ consumer.ended
    /\ consumer.rd = 5
    /\ consumer.err = NoErr

\* the provider was constructed with an explicit key that fails the format
\* check: not empty and shorter than the least length
GivenMalformedKey ==
    /\ Len(provider.given) > 0
    /\ Len(provider.given[1]) > 0
    /\ Len(provider.given[1]) < MinAPIKeyLen

\* C16 as stated: on a provider constructed with an explicit key that fails
\* the format check, a Generate or NewStream call with a request and options
\* that are themselves acceptable fails with ErrInvalidAPIKey, returning
\* neither a response nor a stream, and submits nothing to the wire client.
C16_DeferredKeyFailure ==
    (/\ GivenMalformedKey
     /\ mode \in {"generate", "stream"}
     /\ TranslationPasses
     /\ RequestedIterations >= 1)
    => (/\ Len(sent) = 0
        /\ result.returned =>
              (result.err = ErrInvalidAPIKey /\ result.res.nil /\ ~result.pipe))

\* the Text parts of a message, and the text of its first one
HasText(m) == \E n \in 1 .. Len(m.parts) : m.parts[n].kind = "text"
FirstTextOf(m) ==
    m.parts[CHOOSE n \in 1 .. Len(m.parts) :
                /\ m.parts[n].kind = "text"
                /\ \A u \in 1 .. n - 1 : m.parts[u].kind # "text"].text
\* the assistant messages of the request that have a Text part
AssistantTurns == SelectSeq(req.messages, LAMBDA m : m.role = RoleAssistant /\ HasText(m))

\* C17 as stated: for every text t, the empty string included, an assistant
\* message whose first Text part is t, translated and fed back as the content
\* of a choice, yields an assistant message with exactly one Text part, t.
C17_TextRoundTripAnyText ==
    mode = "roundtrip" =>
        /\ result.err = NoErr
        /\ Len(result.res.messages) = Len(AssistantTurns)
        /\ \A k \in 1 .. Len(AssistantTurns) :
              /\ result.res.messages[k].role = RoleAssistant
              /\ result.res.messages[k].parts = <<TextPart(FirstTextOf(AssistantTurns[k]))>>

\* C17 amended: for every text t that is not empty, such a round trip yields
\* an assistant message, completed and without tool calls, with exactly one
\* Text part, equal to t; for the empty string it yields an assistant message
\* with no part at all.
C17_TextRoundTrip ==
    mode = "roundtrip" =>
        /\ result.err = NoErr
        /\ Len(result.res.messages) = Len(AssistantTurns)
        /\ \A k \in 1 .. Len(AssistantTurns) :
              LET t == FirstTextOf(AssistantTurns[k])
                  out == result.res.messages[k]
              IN /\ out.role = RoleAssistant
                 /\ out.status = StatusCompleted
                 /\ out.toolCalls = <<>>
                 /\ out.parts = IF t # EmptyStr THEN <<TextPart(t)>> ELSE <<>>

C17_Witness ==
    /\ mode = "roundtrip"
    /\ req.messages = <<Msg(RoleAssistant, <<TextPart(Str("Hello")), TextPart(EmptyStr)>>)>>
    /\ result.err = NoErr
    /\ Len(result.res.messages) = 1
    /\ result.res.messages[1].parts = <<TextPart(Str("Hello"))>>

\* the messages of the request that yield an entry of the wire message list,
\* and the entry the i-th message yields
Yields(m) ==
    \/ m.role \in {RoleUser, RoleSystem}
    \/ m.role = RoleAssistant /\ HasText(m)
WireIndex(i) == Cardinality({j \in 1 .. i : Yields(req.messages[j])})

\* a File part of a MIME type that is neither image nor audio
IsDroppedPart(v) == v.kind = "file" /\ v.mime.type \notin {"image", "audio"}
KeptParts(m) == SelectSeq(m.parts, LAMBDA v : ~IsDroppedPart(v))

\* the wire content part w is the one due for the part v
IsWirePartOf(v, w) ==
    CASE v.kind = "text" -> w.type = "text" /\ w.text = v.text
      [] v.kind = "file" /\ v.mime.type = "image" -> w.type = "image_url" /\ w.url = v.uri
      [] v.kind = "file" /\ v.mime.type = "audio" ->
            w.type = "input_audio" /\ w.data = v.uri /\ w.format = v.mime.format
      [] v.kind = "data" /\ v.mime.type = "image" ->
            /\ w.type = "image_url"
            /\ IsPrefix(Str("data:") \o v.mime.str \o Str(";base64,"), w.url)
            /\ v.mime = MimePNG =>
                  IsPrefix(<<"data:", "image/png", ";base64,">>, w.url)
      [] v.kind = "data" /\ v.mime.type = "audio" ->
            /\ w.type = "input_audio"
            /\ w.format = v.mime.format
            /\ IsPrefix(Str("data:;base64,"), w.data)
      [] v.kind = "data" -> w.type = "file" /\ w.filename = v.name
      [] OTHER -> FALSE

\* C18: the wire content parts of a user message are, in the order of its
\* parts, one text part per Text part, one image part per File or Data part
\* of type image, one inline-audio part per File or Data part of type audio,
\* one file attachment per Data part of another type, and nothing for a File
\* part of another type, which is dropped without error; a Data part of type
\* image/png yields a URL that begins with data:image/png;base64,.
C18_UserPartMapping ==
    (mode = "translate" /\ result.err = NoErr) =>
        \A i \in 1 .. Len(req.messages) :
            req.messages[i].role = RoleUser =>
                LET m == req.messages[i]
                    kept == KeptParts(m)
                    w == g.params.messages[WireIndex(i)]
                IN /\ w.role = RoleUser
                   /\ Len(w.parts) = Len(kept)
                   /\ Len(w.parts) =
                        Len(m.parts) - Cardinality({n \in 1 .. Len(m.parts) :
                                                      IsDroppedPart(m.parts[n])})
                   /\ \A n \in 1 .. Len(kept) : IsWirePartOf(kept[n], w.parts[n])

C18_Witness ==
    /\ mode = "translate"
    /\ result.err = NoErr
    /\ req.messages =
          <<Msg(RoleUser, <<FilePart(Str("a.pdf"), Str("file://a.pdf"), MimePDF),
                            DataPart(Str("p.png"), BytesPNG, MimePNG)>>)>>
    /\ Len(g.params.messages) = 1
    /\ Len(g.params.messages[1].parts) = 1
    /\ g.params.messages[1].parts[1].url =
          <<"data:", "image/png", ";base64,", "iVBORw==">>

\* the Text parts of a message as wire text parts, in order
TextsOf(m) ==
    LET texts == SelectSeq(m.parts, LAMBDA v : v.kind = "text")
    IN [n \in 1 .. Len(texts) |-> [type |-> "text", text |-> texts[n].text]]

\* C19: the wire message list of a translated request has, in the order of
\* the request's messages, one entry per user message, one per system message
\* with all its Text parts in order and nothing else, one per assistant
\* message that has a Text part with only the first of them, and no entry for
\* a tool message or for an assistant message without Text part.
C19_RoleDispatch ==
    (mode = "translate" /\ result.err = NoErr) =>
        LET wire == g.params.messages
            n == Len(req.messages)
        IN /\ Len(wire) = WireIndex(n)
           /\ Len(wire) =
                Cardinality({i \in 1 .. n : req.messages[i].role \in {RoleUser, RoleSystem}})
                + Cardinality({i \in 1 .. n : /\ req.messages[i].role = RoleAssistant
                                               /\ HasText(req.messages[i])})
           /\ \A i \in 1 .. n :
                 LET m == req.messages[i]
                 IN Yields(m) =>
                       LET w == wire[WireIndex(i)]
                       IN /\ w.role = m.role
                          /\ w.toolCalls = <<>>
                          /\ m.role = RoleSystem => (w.parts = TextsOf(m) /\ w.text = EmptyStr)
                          /\ m.role = RoleAssistant =>
                                (w.text = FirstTextOf(m) /\ w.parts = <<>>)
                          /\ m.role = RoleUser => Len(w.parts) = Len(KeptParts(m))

C19_Witness ==
    /\ mode = "translate"
    /\ result.err = NoErr
    /\ Len(req.messages) = 3
    /\ req.messages[1].role = RoleTool
    /\ req.messages[2].role = RoleAssistant /\ Len(req.messages[2].parts) = 3
    /\ req.messages[3].role = RoleSystem
    /\ Len(g.params.messages) = 2
    /\ g.params.messages[1].text = Str("Hi")
    /\ Len(g.params.messages[2].parts) = 2

\* what a handler returns for an argument string when it succeeds
ResultOf(tools, call) ==
    IF tools[FirstNamed(tools, call.name)].handler = "echo"
    THEN call.arguments
    ELSE Str("Beijing: Sunny, 25C")

\* the entries an assembly appends to the running message list for a choice:
\* nothing without tool calls, else the announcement and one tool result per
\* call
AppendedFor(tools, choice) ==
    IF Len(choice.toolCalls) = 0 THEN <<>>
    ELSE <<WireMsg(RoleAssistant, choice.content, <<>>, choice.toolCalls, EmptyStr)>>
         \o [k \in 1 .. Len(choice.toolCalls) |->
                WireMsg(RoleTool, ResultOf(tools, choice.toolCalls[k]), <<>>, <<>>,
                        choice.toolCalls[k].id)]

RECURSIVE AppendedUpTo(_, _, _)
AppendedUpTo(tools, choices, i) ==
    IF i = 0 THEN <<>>
    ELSE AppendedUpTo(tools, choices, i - 1) \o AppendedFor(tools, choices[i])

\* C20: assembling choices whose tool calls all succeed appends to the running
\* message list, for each choice with n >= 1 calls, exactly n + 1 entries: the
\* assistant's announcement, then one tool result per call in the order of
\* the calls, with the call's id and the handler's result; that choice's
\* output message has role tool and n ToolCall records in the same order with
\* the id, name, arguments and result. A choice without tool calls appends
\* nothing and yields an assistant message without ToolCall records.
C20_AssemblyOrder ==
    (/\ mode = "assemble"
     /\ CallsSucceed(received[1].choices, req.tools))
    => LET choices == received[1].choices
           before == toWireMessages(req.messages, 1)
       IN /\ result.err = NoErr
          /\ g.params.messages = before \o AppendedUpTo(req.tools, choices, Len(choices))
          /\ Len(result.res.messages) = Len(choices)
          /\ \A i \in 1 .. Len(choices) :
                LET calls == choices[i].toolCalls
                    out == result.res.messages[i]
                IN /\ Len(AppendedFor(req.tools, choices[i])) =
                        (IF Len(calls) = 0 THEN 0 ELSE Len(calls) + 1)
                   /\ out.role = IF Len(calls) = 0 THEN RoleAssistant ELSE RoleTool
                   /\ out.status = StatusCompleted
                   /\ Len(out.toolCalls) = Len(calls)
                   /\ \A k \in 1 .. Len(calls) :
                         out.toolCalls[k] =
                            [id |-> calls[k].id, name |-> calls[k].name,
                             arguments |-> calls[k].arguments,
                             result |-> ResultOf(req.tools, calls[k])]

C20_Witness ==
    /\ mode = "assemble"
    /\ req.tools = ToolsBoth
    /\ Len(received[1].choices) = 2
    /\ Len(received[1].choices[1].toolCalls) = 2
    /\ received[1].choices[1].toolCalls[1].name = Str("echo")
    /\ received[1].choices[1].toolCalls[2].name = Str("get_weather")
    /\ result.err = NoErr
    /\ Len(g.params.messages) = Len(toWireMessages(req.messages, 1)) + 3
    /\ result.res.messages[1].role = RoleTool
    /\ result.res.messages[1].toolCalls[1].result = Str("ping")
    /\ result.res.messages[2].role = RoleAssistant

\* the requests the caller's options allow: MaxIterations, 3 without option,
\* none when it is below 1
Budget == IF RequestedIterations < 1 THEN 0 ELSE RequestedIterations

\* C21 as a state predicate: a Generate call has submitted at most
\* MaxIterations requests, at most 3 without option; every request but the
\* last was answered before the next was submitted, the next one being built
\* from that answer, so that no two are in flight; and a call that returned
\* returned either a response or an error.
C21_AtMostBudget ==
    mode = "generate" =>
        /\ Len(sent) <= Budget
        /\ ~opt.given => Len(sent) <= 3
        /\ Len(sent) - Len(received) \in {0, 1}
        /\ \A k \in 1 .. Len(sent) - 1 :
              /\ received[k].err = NoErr
              /\ sent[k + 1] = choiceToResponse(sent[k], req.tools, received[k].choices).messages
        /\ result.returned <=> g.pc = "done"
        /\ result.returned => (result.res.nil <=> result.err # NoErr)

\* C21: for every MaxIterations value and every behaviour of the model and
\* the tools, a Generate call submits at most MaxIterations requests (at most
\* 3 without option), one at a time, and always returns, with a response or
\* with an error.
C21_BoundedRecursion ==
    /\ []C21_AtMostBudget
    /\ (mode = "generate") ~> (result.returned /\ g.pc = "done")

C21_Witness ==
    /\ mode = "generate"
    /\ opt = NoOption
    /\ Len(sent) = 3
    /\ Len(received) = 3
    /\ req.tools = ToolsBoth
    /\ result.returned
    /\ result.err = NoErr
    /\ ~result.res.nil

\* the error the assembly of the s-th consolidated response ends in, NoErr
\* when every audio payload decodes and every tool call succeeds
AssemblyError(s) ==
    LET evs == Events(received[s].choices)
        stop == FirstFailure(req.tools, evs)
    IN IF stop = 0 THEN NoErr
       ELSE IF evs[stop].kind = "audio" THEN ErrBase64
       ELSE CallError(req.tools, evs[stop].call)

\* C22 as stated: when the assembly of the consolidated result of a nested
\* stream fails, nothing is opened or emitted after it, and the output
\* sequence the caller reads terminates with that same error, never as if
\* successful.
C22_NestedFailurePropagates ==
    (mode = "stream" /\ Top >= 1) =>
        \A s \in 2 .. Len(received) :
            AssemblyError(s) # NoErr =>
                /\ Len(sent) = s
                /\ Len(received) = s
                /\ frames[1].pipe.closed => frames[1].pipe.err = AssemblyError(s)
                /\ consumer.ended => consumer.err = AssemblyError(s)

\* C23 in a state: the goroutines of a call chain are nested one in another;
\* only the innermost has a wire stream that is still read, every other one
\* has read its stream to the end and assembled its consolidated result and
\* is relaying, and the stream nested in it was opened on the message list
\* as that assembly left it, which it has not touched since.
C23_NestedAfterAssembly ==
    (mode = "stream" /\ Top >= 1) =>
        /\ frames[Top].stream <= Len(sent)
        /\ frames[Top].pc = "reading" => frames[Top].stream = Len(sent)
        /\ Len(received) \in {Len(sent) - 1, Len(sent)}
        /\ (Len(received) = Len(sent) - 1) <=> (frames[Top].pc = "reading")
        /\ \A d \in 1 .. Top - 1 :
              /\ frames[d].pc = "relay"
              /\ frames[d].ended
              /\ frames[d].stream <= Len(received)
              /\ frames[d].stream < frames[d + 1].stream
              /\ sent[frames[d + 1].stream] = frames[d].params.messages

\* C23 in a step: while a nested goroutine is there, a step changes nothing
\* of its parent but the parent's pipe; a chunk is read from the stream of
\* the innermost goroutine only; handlers are invoked by the innermost
\* goroutine only, at the end of its own stream; and a stream is opened only
\* by a goroutine that has read its own to the end and assembled the result.
C23_ParentIdle ==
    mode = "stream" =>
        /\ \A d \in 1 .. Top - 1 :
              d < Len(frames') => [frames'[d] EXCEPT !.pipe = frames[d].pipe] = frames[d]
        /\ Len(delivered') > Len(delivered) =>
              /\ Top >= 1
              /\ frames[Top].pc = "reading"
              /\ delivered'[Len(delivered')].stream = frames[Top].stream
        /\ invoked' # invoked =>
              /\ Top >= 1
              /\ frames[Top].pc = "reading"
              /\ received' = Append(received, [choices |-> frames[Top].acc, err |-> NoErr])
              /\ invoked' = invoked \o InvocationsDue(req.tools, frames[Top].acc)
        /\ Len(sent') > Len(sent) =>
              /\ Top >= 1
              /\ frames[Top].pc = "loop"
              /\ frames[Top].ended
              /\ Len(received) = Len(sent)
              /\ sent' = Append(sent, frames[Top].params.messages)

\* C23: within one streaming call chain a nested stream is opened only after
\* its parent has read its wire stream to the end and assembled its
\* consolidated result, and while the nested goroutine produces, the parent
\* reads no chunk, invokes no handler and appends nothing to the running
\* message list: it only relays.
C23_SingleActiveProducer ==
    /\ []C23_NestedAfterAssembly
    /\ [][C23_ParentIdle]_vars

C23_Witness ==
    /\ mode = "stream"
    /\ Top = 3
    /\ frames[1].pc = "relay"
    /\ frames[2].pc = "relay"
    /\ frames[3].pc = "reading"
    /\ Len(ChunksOf(3)) = 1
    /\ Len(frames[3].pipe.hist) = 1
    /\ Len(invoked) = 2

\* C24 as stated: a call that either entry point rejects before any network
\* activity is rejected by the other entry point, on the same request and
\* options, with the same error; so also when the model is unsupported and
\* MaxIterations is below 1.
C24_EntryPointsRejectAlike ==
    /\ (mode = "generate" /\ result.returned /\ Len(sent) = 0)
            => result.err = NewStreamRejects(req, opt)
    /\ (mode = "stream" /\ result.returned /\ ~result.pipe)
            => result.err = GenerateRejects(req, opt)

\* a message has role tool exactly when it has a ToolCall record
ToolRoleIffToolCalls(msgs) ==
    \A i \in 1 .. Len(msgs) : (msgs[i].role = RoleTool) <=> (Len(msgs[i].toolCalls) >= 1)

\* C25: a response that Generate returns without error has only messages of
\* role assistant, completed and without ToolCall records; a consolidated
\* response with a tool message is not returned: another request cycle
\* follows it, or Generate returns an error; and every message assembled,
\* from a completion or from a chunk, has role tool exactly when it has at
\* least one ToolCall record.
C25_NoOutstandingToolCalls ==
    /\ mode = "generate" =>
          /\ (result.returned /\ result.err = NoErr) =>
                /\ ~result.res.nil
                /\ \A i \in 1 .. Len(result.res.messages) :
                      /\ result.res.messages[i].role = RoleAssistant
                      /\ result.res.messages[i].status = StatusCompleted
                      /\ result.res.messages[i].toolCalls = <<>>
          /\ \A k \in 1 .. Len(received) :
                (received[k].err = NoErr /\ AssemblyError(k) = NoErr) =>
                    /\ ToolRoleIffToolCalls(
                            choiceToResponse(sent[k], req.tools, received[k].choices)
                                .res.messages)
                    /\ (HasToolCall(received[k].choices) /\ result.returned) =>
                            \/ k < Len(sent)
                            \/ result.res.nil /\ result.err = ErrTooManyIterations
    /\ mode = "stream" =>
          \A d \in 1 .. Top : \A n \in 1 .. Len(frames[d].pipe.hist) :
              ToolRoleIffToolCalls(frames[d].pipe.hist[n].messages)

C25_Witness ==
    /\ mode = "generate"
    /\ req.tools = ToolsBoth
    /\ Len(sent) = 2
    /\ Len(received) = 2
    /\ received[1] = [choices |-> <<ChoiceText, ChoiceCalls>>, err |-> NoErr]
    /\ Len(invoked) = 2
    /\ result.returned
    /\ result.err = NoErr
    /\ Len(result.res.messages) = 2

\* the tool calls of a list of choices, all choices together
RECURSIVE CallCount(_, _)
CallCount(choices, i) ==
    IF i > Len(choices) THEN 0
    ELSE Len(choices[i].toolCalls) + CallCount(choices, i + 1)

\* every consolidated result so far asks for a single tool call, one that
\* succeeds
EveryResultCallsOneTool ==
    \A k \in 1 .. Len(received) :
        /\ CallCount(received[k].choices, 1) = 1
        /\ CallsSucceed(received[k].choices, req.tools)

\* C26 as stated: a NewStream call chain with MaxIterations = N >= 1 whose
\* every consolidated result asks for a single tool call that succeeds has,
\* when its output sequence ends, opened exactly N wire streams, emitted the
\* partial and consolidated items of the N cycles in cycle order, and ended
\* with ErrTooManyIterations as its terminal error.
C26_StreamBudgetExhaustion ==
    (/\ mode = "stream"
     /\ Top >= 1
     /\ RequestedIterations >= 1
     /\ frames[1].wireErr = NoErr
     /\ frames[1].pipe.closed
     /\ EveryResultCallsOneTool)
    => (/\ Len(sent) = RequestedIterations
        /\ Len(received) = RequestedIterations
        /\ frames[1].pipe.hist = ProducedFrom(ProducedPerStream, 1)
        /\ frames[1].pipe.err = ErrTooManyIterations
        /\ consumer.ended => consumer.err = ErrTooManyIterations)

\* C27 in a step: once a call is under way no step changes the request or
\* the options the caller passed, or the provider.
C27_CallerStateKept ==
    mode # "idle" => (req' = req /\ opt' = opt /\ provider' = provider)

\* C27 in a state: what a call chain accumulates, it accumulates in its own
\* running request and budget: every running request carries the model of
\* the caller's request and, in front of whatever was appended, the
\* translation of the caller's messages as they still are, and every budget
\* left is at most the MaxIterations the caller's options still say.
C27_ChainStateOnly ==
    LET initial == toWireMessages(req.messages, 1)
    IN /\ (mode = "generate" /\ TranslationPasses) =>
             /\ g.params.model = req.model
             /\ Len(g.params.tools) = Len(req.tools)
             /\ IsPrefix(initial, g.params.messages)
             /\ g.maxIter <= RequestedIterations
             /\ g.maxIter >= RequestedIterations - Len(sent)
       /\ mode = "stream" =>
             \A d \in 1 .. Top :
                /\ frames[d].params.model = req.model
                /\ Len(frames[d].params.tools) = Len(req.tools)
                /\ IsPrefix(initial, frames[d].params.messages)
                /\ frames[d].maxIter <= RequestedIterations
       /\ mode \in {"generate", "stream"} =>
             \A k \in 1 .. Len(sent) : IsPrefix(initial, sent[k])

====
